---- MODULE Spec2Model ----
(***************************************************************************)
(* MPM (Metra Potential Method) scheduling: the task validation of         *)
(* app.py (validate_tasks, has_cycle) and the schedule computation of      *)
(* mpm_calculator.py (MPMCalculator), as run by the calculate-mpm request. *)
(*                                                                         *)
(* Durations and dates are fixed-point numbers: one unit is 0.0005 time    *)
(* units, so that the 0.001 tolerance of the code is Tol = 2 units and     *)
(* durations below, at and above the tolerance all occur.                  *)
(***************************************************************************)
EXTENDS Integers, Sequences, FiniteSets, TLC

\* ---------------------------------------------------------------- bounds
\* Longest predecessor list of one task.
MaxPreds == 2
\* Most predecessor entries in one task set.
MaxEdges == 3
\* Largest duration, in units of 0.0005.
MaxDur == 4
\* Most calls of calculate_all on one MPMCalculator instance.
MaxCalls == 2

\* The names a request may use; a task set has at most Len(NameSeq) tasks.
NameSeq == <<"A", "B", "C">>
MaxTasks == Len(NameSeq)
AllNames == {NameSeq[i] : i \in 1..Len(NameSeq)}

\* The tolerance 0.001 of mpm_calculator.py, in units of 0.0005.
Tol == 2

\* ---------------------------------------------------------------- helpers
Abs(x) == IF x < 0 THEN -x ELSE x

Range(s) == {s[i] : i \in 1..Len(s)}

RECURSIVE SumLen(_, _)
SumLen(f, i) == IF i = 0 THEN 0 ELSE Len(f[i]) + SumLen(f, i - 1)

\* min() of Python over a non-empty sequence of numbers.
RECURSIVE MinOf(_, _, _)
MinOf(vals, i, best) ==
    IF i > Len(vals) THEN best
    ELSE MinOf(vals, i + 1, IF vals[i] < best THEN vals[i] ELSE best)

\* The keys of a dict built by {task['name']: ... for task in tasks}, in
\* insertion order: each name once, at the place of its first occurrence.
RECURSIVE KeyOrder(_, _, _)
KeyOrder(ts, i, acc) ==
    IF i > Len(ts) THEN acc
    ELSE KeyOrder(ts, i + 1,
                  IF ts[i].name \in Range(acc) THEN acc ELSE Append(acc, ts[i].name))

NameSet(ts) == {ts[i].name : i \in 1..Len(ts)}

\* The last task carrying a name: the value a dict comprehension keeps.
LastIndex(ts, n) == CHOOSE i \in 1..Len(ts) :
                        /\ ts[i].name = n
                        /\ \A j \in (i + 1)..Len(ts) : ts[j].name # n

\* ---------------------------------------------------------------- validation
NoError == [kind |-> "None", pos |-> 0, task |-> "", pred |-> ""]
Err(kind, pos, task, pred) == [kind |-> kind, pos |-> pos, task |-> task, pred |-> pred]

\* graph of has_cycle: name -> predecessor list, the last task of a name wins.
graph_of(ts) == [n \in NameSet(ts) |-> ts[LastIndex(ts, n)].predecessors]

\* graph.get(node, [])
graph_get(graph, node) == IF node \in DOMAIN graph THEN graph[node] ELSE <<>>

\* dfs of has_cycle; st carries visited and rec_stack, found is the result.
RECURSIVE dfs(_, _, _)
RECURSIVE dfs_neighbors(_, _, _, _)
dfs(graph, node, st) ==
    IF node \in st.rec_stack THEN [st EXCEPT !.found = TRUE]
    ELSE IF node \in st.visited THEN [st EXCEPT !.found = FALSE]
    ELSE LET st1 == [found |-> FALSE,
                     visited |-> st.visited \cup {node},
                     rec_stack |-> st.rec_stack \cup {node}]
             r == dfs_neighbors(graph, graph_get(graph, node), 1, st1)
         IN  IF r.found THEN r
             ELSE [r EXCEPT !.rec_stack = r.rec_stack \ {node}]

dfs_neighbors(graph, nbrs, i, st) ==
    IF i > Len(nbrs) THEN [st EXCEPT !.found = FALSE]
    ELSE LET r == dfs(graph, nbrs[i], st)
         IN  IF r.found THEN r ELSE dfs_neighbors(graph, nbrs, i + 1, r)

\* The loop "for node in task_names" of has_cycle, in the iteration order
\* `order` of the set task_names.
RECURSIVE has_cycle_loop(_, _, _, _)
has_cycle_loop(graph, order, i, st) ==
    IF i > Len(order) THEN FALSE
    ELSE IF order[i] \in st.visited THEN has_cycle_loop(graph, order, i + 1, st)
    ELSE LET r == dfs(graph, order[i], st)
         IN  IF r.found THEN TRUE ELSE has_cycle_loop(graph, order, i + 1, r)

has_cycle(ts, order) ==
    has_cycle_loop(graph_of(ts), order, 1,
                   [found |-> FALSE, visited |-> {}, rec_stack |-> {}])

\* The orders in which Python may iterate over the set of names.
SetOrders(S) == {o \in [1..Cardinality(S) -> S] : Range(o) = S}

Blank == " "

\* A duration that float() rejects (a non-numeric string, null): the code of
\* such a value in a task record. Durations that float() accepts are the
\* integers >= 0, in units of 0.0005; 0 stands for every non-positive number.
NonNumeric == -1

\* The per-task loop of validate_tasks: name, then duration, task by task.
RECURSIVE validate_each(_, _)
validate_each(ts, i) ==
    IF i > Len(ts) THEN NoError
    ELSE IF ts[i].name = "" \/ ts[i].name = Blank
         THEN Err("MissingName", i, "", "")
    ELSE IF ts[i].duration = NonNumeric
         THEN Err("InvalidDuration", 0, ts[i].name, "")
    ELSE IF ts[i].duration <= 0
         THEN Err("InvalidDuration", 0, ts[i].name, "")
    ELSE validate_each(ts, i + 1)

\* validate_preds reading each predecessor list from its end.
RECURSIVE validate_preds_reversed(_, _, _)
validate_preds_reversed(ts, i, j) ==
    IF i > Len(ts) THEN NoError
    ELSE IF j > Len(ts[i].predecessors) THEN validate_preds_reversed(ts, i + 1, 1)
    ELSE LET pred == ts[i].predecessors[Len(ts[i].predecessors) + 1 - j]
         IN  IF pred \notin NameSet(ts)
             THEN Err("UnknownPredecessor", 0, ts[i].name, pred)
             ELSE validate_preds_reversed(ts, i, j + 1)

\* The referential check of validate_tasks: first (task, pred) in list order.
RECURSIVE validate_preds(_, _, _)
validate_preds(ts, i, j) ==
    IF i > Len(ts) THEN NoError
    ELSE IF j > Len(ts[i].predecessors) THEN validate_preds(ts, i + 1, 1)
    ELSE IF ts[i].predecessors[j] \notin NameSet(ts)
         THEN Err("UnknownPredecessor", 0, ts[i].name, ts[i].predecessors[j])
    ELSE validate_preds(ts, i, j + 1)

validate_tasks(ts, order) ==
    IF Len(ts) = 0 THEN Err("EmptyInput", 0, "", "")
    ELSE IF validate_each(ts, 1) # NoError THEN validate_each(ts, 1)
    ELSE IF has_cycle(ts, order) THEN Err("CyclicDependency", 0, "", "")
    ELSE validate_preds(ts, 1, 1)

\* ---------------------------------------------------------------- state
VARIABLES
    tasks,              \* the submitted task list (request body)
    pc,                 \* position of the request in calculate_mpm / calculate_all
    validation_error,   \* result of validate_tasks
    successors,         \* local successors dict of _calculate_dpt / _calculate_dpl
    in_degree,          \* local in_degree dict of _calculate_dpt
    queue,              \* local deque of _calculate_dpt
    dpt,                \* self.dpt
    dpl,                \* self.dpl
    marges,             \* self.marges
    critical_path,      \* self.critical_path
    project_duration,   \* self.project_duration
    changed,            \* local flag of _calculate_dpl
    iterations,         \* local counter of _calculate_dpl
    dequeued,           \* history: the tasks popped by the current _calculate_dpt
    call_no,            \* number of the calculate_all call on this instance
    returned,           \* the result returned by the previous calculate_all call
    other               \* a second MPMCalculator instance, of a concurrent request

vars == <<tasks, pc, validation_error, successors, in_degree, queue, dpt, dpl,
          marges, critical_path, project_duration, changed, iterations,
          dequeued, call_no, returned, other>>

EmptyDict == <<>>

\* ---------------------------------------------------------------- inputs
PredLists == {p \in UNION {[1..k -> AllNames] : k \in 0..MaxPreds} :
                 \A a, b \in 1..Len(p) : a # b => p[a] # p[b]}

\* The task at position i is named by one of the first i names: every
\* pattern of equal and distinct names occurs, up to renaming.
NameChoices(n) == {f \in [1..n -> AllNames] :
                      \A i \in 1..n : \E j \in 1..i : f[i] = NameSeq[j]}

PredChoices(n) == {f \in [1..n -> PredLists] : SumLen(f, n) <= MaxEdges}

\* What calculate_all returns: the schedule fields of the instance.
Result(est, lst, slack, cp, pd) ==
    [dpt |-> est, dpl |-> lst, marges |-> slack, critical_path |-> cp,
     project_duration |-> pd]

NoResult == Result(EmptyDict, EmptyDict, EmptyDict, <<>>, 0)

\* No second instance.
NoInstance == [pc |-> "none"]

\* The state of a request before calculate_mpm runs: MPMCalculator.__init__
\* sets the same empty maps.
InitState ==
    /\ pc = "request"
    /\ validation_error = NoError
    /\ successors = EmptyDict
    /\ in_degree = EmptyDict
    /\ queue = <<>>
    /\ dpt = EmptyDict
    /\ dpl = EmptyDict
    /\ marges = EmptyDict
    /\ critical_path = <<>>
    /\ project_duration = 0
    /\ changed = FALSE
    /\ iterations = 0
    /\ dequeued = <<>>
    /\ call_no = 1
    /\ returned = NoResult

Init ==
    /\ \E n \in 0..MaxTasks :
         \E nm \in NameChoices(n), du \in [1..n -> 0..MaxDur], pr \in PredChoices(n) :
            tasks = [i \in 1..n |->
                        [name |-> nm[i], duration |-> du[i], predecessors |-> pr[i]]]
    /\ InitState
    /\ other = NoInstance

\* Requests for the validation: names may be blank, durations may be
\* non-numeric, non-positive or valid.
NameChoicesV(n) == {f \in [1..n -> AllNames \cup {Blank}] :
                       \A i \in 1..n : f[i] = Blank \/ \E j \in 1..i : f[i] = NameSeq[j]}

InitValidation ==
    /\ \E n \in 0..MaxTasks :
         \E nm \in NameChoicesV(n), du \in [1..n -> {NonNumeric, 0, MaxDur}],
            pr \in PredChoices(n) :
            tasks = [i \in 1..n |->
                        [name |-> nm[i], duration |-> du[i], predecessors |-> pr[i]]]
    /\ InitState
    /\ other = NoInstance

\* ---------------------------------------------------------------- calculate_mpm
\* calculate_mpm without the test of validation_error: the calculator always runs.
calculate_mpm_unchecked ==
    /\ pc = "request"
    /\ \E order \in SetOrders(NameSet(tasks)) :
          validation_error' =
              IF Len(tasks) = 0 THEN Err("EmptyInput", 0, "", "")
              ELSE validate_tasks(tasks, order)
    /\ pc' = "calculate_all"
    /\ UNCHANGED <<tasks, successors, in_degree, queue, dpt, dpl, marges,
                   critical_path, project_duration, changed, iterations>>
    /\ UNCHANGED <<dequeued, call_no, returned, other>>

\* calculate_mpm up to the validation: the request ends with an error, or goes
\* on to MPMCalculator(tasks).
calculate_mpm ==
    /\ pc = "request"
    /\ \E order \in SetOrders(NameSet(tasks)) :
          validation_error' =
              IF Len(tasks) = 0 THEN Err("EmptyInput", 0, "", "")
              ELSE validate_tasks(tasks, order)
    /\ pc' = IF validation_error' = NoError THEN "calculate_all" ELSE "error"
    /\ UNCHANGED <<tasks, successors, in_degree, queue, dpt, dpl, marges,
                   critical_path, project_duration, changed, iterations>>
    /\ UNCHANGED <<dequeued, call_no, returned, other>>

\* ---------------------------------------------------------------- MPMCalculator
\* self.task_dict[n]['duration']: the last task named n.
task_dict_duration(ts, n) == ts[LastIndex(ts, n)].duration

\* The inner loop "for pred in predecessors" building successors and in_degree.
RECURSIVE add_preds(_, _, _, _)
add_preds(acc, name, preds, j) ==
    IF j > Len(preds) THEN acc
    ELSE add_preds(
            IF preds[j] \in DOMAIN acc.successors
            THEN [successors |-> [acc.successors EXCEPT ![preds[j]] = Append(@, name)],
                  in_degree  |-> [acc.in_degree EXCEPT ![name] = @ + 1]]
            ELSE acc,
            name, preds, j + 1)

\* The outer loop "for task in self.tasks" building successors and in_degree.
RECURSIVE build_graph(_, _, _)
build_graph(acc, ts, i) ==
    IF i > Len(ts) THEN acc
    ELSE build_graph(add_preds(acc, ts[i].name, ts[i].predecessors, 1), ts, i + 1)

graph_built(ts) ==
    build_graph([successors |-> [n \in NameSet(ts) |-> <<>>],
                 in_degree  |-> [n \in NameSet(ts) |-> 0]], ts, 1)

\* seed_queue without the in-degree test: every task is queued at the start.
RECURSIVE seed_queue_all(_, _, _, _)
seed_queue_all(keys, deg, i, q) ==
    IF i > Len(keys) THEN q
    ELSE seed_queue_all(keys, deg, i + 1, Append(q, keys[i]))

\* The tasks of in-degree 0, in the key order of in_degree.
RECURSIVE seed_queue(_, _, _, _)
seed_queue(keys, deg, i, q) ==
    IF i > Len(keys) THEN q
    ELSE seed_queue(keys, deg, i + 1,
                    IF deg[keys[i]] = 0 THEN Append(q, keys[i]) ELSE q)

\* _calculate_dpt up to the while loop: graph, dpt = 0 everywhere, seeded queue.
calculate_dpt_init ==
    /\ pc = "calculate_all"
    /\ LET g == graph_built(tasks)
       IN  /\ successors' = g.successors
           /\ in_degree' = g.in_degree
           /\ dpt' = [n \in NameSet(tasks) |-> 0]
           /\ queue' = seed_queue(KeyOrder(tasks, 1, <<>>), g.in_degree, 1, <<>>)
    /\ pc' = "dpt_loop"
    /\ UNCHANGED <<tasks, validation_error, dpl, marges, critical_path,
                   project_duration, changed, iterations>>
    /\ dequeued' = <<>>
    /\ UNCHANGED <<call_no, returned, other>>

\* relax_successors with the comparison dropped: the last predecessor
\* processed sets the date, instead of the latest-finishing one.
RECURSIVE relax_successors_overwrite(_, _, _, _)
relax_successors_overwrite(acc, succs, k, current_finish) ==
    IF k > Len(succs) THEN acc
    ELSE LET successor == succs[k]
             d1 == [acc.dpt EXCEPT ![successor] = current_finish]
             g1 == [acc.in_degree EXCEPT ![successor] = @ - 1]
             q1 == IF g1[successor] = 0 THEN Append(acc.queue, successor)
                   ELSE acc.queue
         IN  relax_successors_overwrite([dpt |-> d1, in_degree |-> g1, queue |-> q1],
                                        succs, k + 1, current_finish)

\* The loop "for successor in successors[current]" of one dequeued task.
RECURSIVE relax_successors(_, _, _, _)
relax_successors(acc, succs, k, current_finish) ==
    IF k > Len(succs) THEN acc
    ELSE LET successor == succs[k]
             d1 == IF current_finish > acc.dpt[successor]
                   THEN [acc.dpt EXCEPT ![successor] = current_finish]
                   ELSE acc.dpt
             g1 == [acc.in_degree EXCEPT ![successor] = @ - 1]
             q1 == IF g1[successor] = 0 THEN Append(acc.queue, successor)
                   ELSE acc.queue
         IN  relax_successors([dpt |-> d1, in_degree |-> g1, queue |-> q1],
                              succs, k + 1, current_finish)

\* One iteration of "while queue": popleft and relax the successors.
calculate_dpt_step ==
    /\ pc = "dpt_loop"
    /\ queue # <<>>
    /\ LET current == Head(queue)
           current_finish == dpt[current] + task_dict_duration(tasks, current)
           r == relax_successors([dpt |-> dpt, in_degree |-> in_degree,
                                  queue |-> Tail(queue)],
                                 successors[current], 1, current_finish)
       IN  /\ dpt' = r.dpt
           /\ in_degree' = r.in_degree
           /\ queue' = r.queue
    /\ UNCHANGED <<tasks, pc, validation_error, successors, dpl, marges,
                   critical_path, project_duration, changed, iterations>>
    /\ dequeued' = Append(dequeued, Head(queue))
    /\ UNCHANGED <<call_no, returned, other>>

\* project_duration_of without the duration: the latest start.
RECURSIVE project_duration_start(_, _, _, _)
project_duration_start(ts, d, i, best) ==
    IF i > Len(ts) THEN best
    ELSE project_duration_start(ts, d, i + 1,
                                IF d[ts[i].name] > best THEN d[ts[i].name] ELSE best)

\* project_duration_of without the comparison: the finish of the last task.
RECURSIVE project_duration_last(_, _, _, _)
project_duration_last(ts, d, i, best) ==
    IF i > Len(ts) THEN best
    ELSE project_duration_last(ts, d, i + 1, d[ts[i].name] + ts[i].duration)

\* The loop computing self.project_duration.
RECURSIVE project_duration_of(_, _, _, _)
project_duration_of(ts, d, i, best) ==
    IF i > Len(ts) THEN best
    ELSE LET task_finish == d[ts[i].name] + ts[i].duration
         IN  project_duration_of(ts, d, i + 1,
                                 IF task_finish > best THEN task_finish ELSE best)

\* The queue is empty: project duration, end of _calculate_dpt.
calculate_dpt_finish ==
    /\ pc = "dpt_loop"
    /\ queue = <<>>
    /\ project_duration' = project_duration_of(tasks, dpt, 1, 0)
    /\ pc' = "calculate_dpl"
    /\ UNCHANGED <<tasks, validation_error, successors, in_degree, queue, dpt,
                   dpl, marges, critical_path, changed, iterations>>
    /\ UNCHANGED <<dequeued, call_no, returned, other>>

\* _calculate_dpl up to the while loop.
calculate_dpl_init ==
    /\ pc = "calculate_dpl"
    /\ successors' = graph_built(tasks).successors
    /\ dpl' = [n \in NameSet(tasks) |-> project_duration]
    /\ changed' = TRUE
    /\ iterations' = 0
    /\ pc' = "dpl_loop"
    /\ UNCHANGED <<tasks, validation_error, in_degree, queue, dpt, marges,
                   critical_path, project_duration>>
    /\ UNCHANGED <<dequeued, call_no, returned, other>>

\* max_iterations without the factor 2.
max_iterations_single == Len(tasks)

\* max_iterations with the loop test "iterations <= max_iterations": one
\* pass more.
max_iterations_inclusive == Len(tasks) * 2 + 1

max_iterations == Len(tasks) * 2

\* new_dpl of one task against the current dpl values.
new_dpl(task, succ, l, pd) ==
    IF Len(succ[task.name]) = 0
    THEN pd - task.duration
    ELSE LET vals == [k \in 1..Len(succ[task.name]) |-> l[succ[task.name][k]]]
         IN  MinOf(vals, 1, vals[1]) - task.duration

\* The loop "for task in self.tasks" of one pass, updating dpl in place.
RECURSIVE dpl_pass(_, _, _, _, _)
dpl_pass(acc, ts, succ, pd, i) ==
    IF i > Len(ts) THEN acc
    ELSE LET nd == new_dpl(ts[i], succ, acc.dpl, pd)
         IN  dpl_pass(IF Abs(nd - acc.dpl[ts[i].name]) > Tol
                      THEN [dpl |-> [acc.dpl EXCEPT ![ts[i].name] = nd],
                            changed |-> TRUE]
                      ELSE acc,
                      ts, succ, pd, i + 1)

\* One iteration of "while changed and iterations < max_iterations".
calculate_dpl_pass ==
    /\ pc = "dpl_loop"
    /\ changed /\ iterations < max_iterations
    /\ LET r == dpl_pass([dpl |-> dpl, changed |-> FALSE], tasks, successors,
                         project_duration, 1)
       IN  /\ dpl' = r.dpl
           /\ changed' = r.changed
    /\ iterations' = iterations + 1
    /\ UNCHANGED <<tasks, pc, validation_error, successors, in_degree, queue,
                   dpt, marges, critical_path, project_duration>>
    /\ UNCHANGED <<dequeued, call_no, returned, other>>

\* The while condition is false: end of _calculate_dpl.
calculate_dpl_exit ==
    /\ pc = "dpl_loop"
    /\ ~(changed /\ iterations < max_iterations)
    /\ pc' = "calculate_marges"
    /\ UNCHANGED <<tasks, validation_error, successors, in_degree, queue, dpt,
                   dpl, marges, critical_path, project_duration, changed,
                   iterations>>
    /\ UNCHANGED <<dequeued, call_no, returned, other>>

\* _calculate_marges with the operands exchanged.
calculate_marges_swapped ==
    /\ pc = "calculate_marges"
    /\ marges' = [n \in DOMAIN dpt |-> dpt[n] - dpl[n]]
    /\ pc' = "find_critical_path"
    /\ UNCHANGED <<tasks, validation_error, successors, in_degree, queue, dpt,
                   dpl, critical_path, project_duration, changed, iterations>>
    /\ UNCHANGED <<dequeued, call_no, returned, other>>

\* _calculate_marges.
calculate_marges ==
    /\ pc = "calculate_marges"
    /\ marges' = [n \in DOMAIN dpt |-> dpl[n] - dpt[n]]
    /\ pc' = "find_critical_path"
    /\ UNCHANGED <<tasks, validation_error, successors, in_degree, queue, dpt,
                   dpl, critical_path, project_duration, changed, iterations>>
    /\ UNCHANGED <<dequeued, call_no, returned, other>>

\* critical_tasks without the tolerance: the tasks of slack exactly 0.
RECURSIVE critical_tasks_exact(_, _, _, _)
critical_tasks_exact(keys, m, i, acc) ==
    IF i > Len(keys) THEN acc
    ELSE critical_tasks_exact(keys, m, i + 1,
                              IF m[keys[i]] = 0 THEN Append(acc, keys[i]) ELSE acc)

\* critical_tasks: the keys of marges, in key order, with abs(marge) < 0.001.
RECURSIVE critical_tasks(_, _, _, _)
critical_tasks(keys, m, i, acc) ==
    IF i > Len(keys) THEN acc
    ELSE critical_tasks(keys, m, i + 1,
                        IF Abs(m[keys[i]]) < Tol THEN Append(acc, keys[i]) ELSE acc)

\* insert_sorted of an unstable sort: x goes before the elements of equal key.
RECURSIVE insert_sorted_unstable(_, _, _, _)
insert_sorted_unstable(s, x, key, i) ==
    IF i > Len(s) THEN Append(s, x)
    ELSE IF key[s[i]] >= key[x]
         THEN SubSeq(s, 1, i - 1) \o <<x>> \o SubSeq(s, i, Len(s))
         ELSE insert_sorted_unstable(s, x, key, i + 1)

\* list.sort(key=...) is stable: x goes after every element whose key is <= its own.
RECURSIVE insert_sorted(_, _, _, _)
insert_sorted(s, x, key, i) ==
    IF i > Len(s) THEN Append(s, x)
    ELSE IF key[s[i]] > key[x]
         THEN SubSeq(s, 1, i - 1) \o <<x>> \o SubSeq(s, i, Len(s))
         ELSE insert_sorted(s, x, key, i + 1)

\* sort_by without the sort: the list stays in the key order of marges.
RECURSIVE sort_by_none(_, _, _, _)
sort_by_none(s, key, i, acc) ==
    IF i > Len(s) THEN acc
    ELSE sort_by_none(s, key, i + 1, Append(acc, s[i]))

\* critical_tasks.sort(key=lambda x: self.dpt[x]): insertion into a sorted list.
RECURSIVE sort_by(_, _, _, _)
sort_by(s, key, i, acc) ==
    IF i > Len(s) THEN acc
    ELSE sort_by(s, key, i + 1, insert_sorted(acc, s[i], key, 1))

\* _find_critical_path extending the list of the instance instead of
\* replacing it.
find_critical_path_extend ==
    /\ pc = "find_critical_path"
    /\ critical_path' =
          critical_path \o
          sort_by(critical_tasks(KeyOrder(tasks, 1, <<>>), marges, 1, <<>>),
                  dpt, 1, <<>>)
    /\ pc' = "done"
    /\ UNCHANGED <<tasks, validation_error, successors, in_degree, queue, dpt,
                   dpl, marges, project_duration, changed, iterations>>
    /\ UNCHANGED <<dequeued, call_no, returned, other>>

\* _find_critical_path and the return of calculate_all.
find_critical_path ==
    /\ pc = "find_critical_path"
    /\ critical_path' =
          sort_by(critical_tasks(KeyOrder(tasks, 1, <<>>), marges, 1, <<>>),
                  dpt, 1, <<>>)
    /\ pc' = "done"
    /\ UNCHANGED <<tasks, validation_error, successors, in_degree, queue, dpt,
                   dpl, marges, project_duration, changed, iterations>>
    /\ UNCHANGED <<dequeued, call_no, returned, other>>

Next ==
    \/ calculate_mpm
    \/ calculate_dpt_init
    \/ calculate_dpt_step
    \/ calculate_dpt_finish
    \/ calculate_dpl_init
    \/ calculate_dpl_pass
    \/ calculate_dpl_exit
    \/ calculate_marges
    \/ find_critical_path

Spec == Init /\ [][Next]_vars

\* A further call of calculate_all on the same instance: the caller keeps the
\* result of the call before, the instance keeps all its fields.
calculate_all_again ==
    /\ pc = "done"
    /\ call_no < MaxCalls
    /\ returned' = Result(dpt, dpl, marges, critical_path, project_duration)
    /\ call_no' = call_no + 1
    /\ pc' = "calculate_all"
    /\ UNCHANGED <<tasks, validation_error, successors, in_degree, queue, dpt,
                   dpl, marges, critical_path, project_duration, changed,
                   iterations, dequeued, other>>

NextTwice == Next \/ calculate_all_again

SpecTwice == Init /\ [][NextTwice]_vars

\* ---------------------------------------------------------------- two instances
\* MPMCalculator(ts): a fresh instance, before calculate_all.
NewInstance(ts) ==
    [tasks |-> ts, pc |-> "calculate_all", successors |-> EmptyDict,
     in_degree |-> EmptyDict, queue |-> <<>>, dpt |-> EmptyDict, dpl |-> EmptyDict,
     marges |-> EmptyDict, critical_path |-> <<>>, project_duration |-> 0,
     changed |-> FALSE, iterations |-> 0]

\* One step of calculate_all on the instance s: the steps of the actions
\* above, on the fields and locals of s.
inst_step(s) ==
    CASE s.pc = "calculate_all" ->
            LET g == graph_built(s.tasks)
            IN  [s EXCEPT !.successors = g.successors,
                          !.in_degree = g.in_degree,
                          !.dpt = [n \in NameSet(s.tasks) |-> 0],
                          !.queue = seed_queue(KeyOrder(s.tasks, 1, <<>>),
                                               g.in_degree, 1, <<>>),
                          !.pc = "dpt_loop"]
      [] s.pc = "dpt_loop" /\ s.queue # <<>> ->
            LET current == Head(s.queue)
                current_finish == s.dpt[current] + task_dict_duration(s.tasks, current)
                r == relax_successors([dpt |-> s.dpt, in_degree |-> s.in_degree,
                                       queue |-> Tail(s.queue)],
                                      s.successors[current], 1, current_finish)
            IN  [s EXCEPT !.dpt = r.dpt, !.in_degree = r.in_degree, !.queue = r.queue]
      [] s.pc = "dpt_loop" /\ s.queue = <<>> ->
            [s EXCEPT !.project_duration = project_duration_of(s.tasks, s.dpt, 1, 0),
                      !.pc = "calculate_dpl"]
      [] s.pc = "calculate_dpl" ->
            [s EXCEPT !.successors = graph_built(s.tasks).successors,
                      !.dpl = [n \in NameSet(s.tasks) |-> s.project_duration],
                      !.changed = TRUE,
                      !.iterations = 0,
                      !.pc = "dpl_loop"]
      [] s.pc = "dpl_loop" /\ s.changed /\ s.iterations < Len(s.tasks) * 2 ->
            LET r == dpl_pass([dpl |-> s.dpl, changed |-> FALSE], s.tasks,
                              s.successors, s.project_duration, 1)
            IN  [s EXCEPT !.dpl = r.dpl, !.changed = r.changed,
                          !.iterations = s.iterations + 1]
      [] s.pc = "dpl_loop" /\ ~(s.changed /\ s.iterations < Len(s.tasks) * 2) ->
            [s EXCEPT !.pc = "calculate_marges"]
      [] s.pc = "calculate_marges" ->
            [s EXCEPT !.marges = [n \in DOMAIN s.dpt |-> s.dpl[n] - s.dpt[n]],
                      !.pc = "find_critical_path"]
      [] s.pc = "find_critical_path" ->
            [s EXCEPT !.critical_path =
                          sort_by(critical_tasks(KeyOrder(s.tasks, 1, <<>>),
                                                 s.marges, 1, <<>>),
                                  s.dpt, 1, <<>>),
                      !.pc = "done"]

\* other_step with project_duration kept in one place for all instances: the
\* second instance also overwrites the project duration of the first.
other_step_shared ==
    /\ other.pc \notin {"none", "done"}
    /\ other' = inst_step(other)
    /\ project_duration' = IF other.pc = "dpt_loop" /\ other.queue = <<>>
                           THEN other'.project_duration
                           ELSE project_duration
    /\ UNCHANGED <<tasks, pc, validation_error, successors, in_degree, queue, dpt,
                   dpl, marges, critical_path, changed, iterations,
                   dequeued, call_no, returned>>

\* One step of the second instance, at any point of the first request.
other_step ==
    /\ other.pc \notin {"none", "done"}
    /\ other' = inst_step(other)
    /\ UNCHANGED <<tasks, pc, validation_error, successors, in_degree, queue, dpt,
                   dpl, marges, critical_path, project_duration, changed,
                   iterations, dequeued, call_no, returned>>

\* The task lists of two concurrent requests: one or two tasks each.
PairDurations == {1, MaxDur}

PairLists ==
    UNION {{[i \in 1..n |-> [name |-> nm[i], duration |-> du[i],
                             predecessors |-> pr[i]]] :
               nm \in NameChoices(n), du \in [1..n -> PairDurations],
               pr \in PredChoices(n)} : n \in 1..2}

\* The second request passed validate_tasks before its instance was built.
InitPair ==
    /\ tasks \in PairLists
    /\ InitState
    /\ \E ts \in PairLists :
          /\ \E order \in SetOrders(NameSet(ts)) : validate_tasks(ts, order) = NoError
          /\ other = NewInstance(ts)

NextPair == Next \/ other_step

SpecPair == InitPair /\ [][NextPair]_vars

\* The same request handling, over the requests of InitValidation.
SpecValidation == InitValidation /\ [][Next]_vars

\* ---------------------------------------------------------------- calculator alone
\* The durations float() accepts: negative, zero, below and above the tolerance.
CalcDurations == {-MaxDur, 0, 1, MaxDur}

\* No instance yet: the caller has not built its MPMCalculator.
InitCalculator ==
    /\ tasks = <<>>
    /\ pc = "new"
    /\ validation_error = NoError
    /\ successors = EmptyDict
    /\ in_degree = EmptyDict
    /\ queue = <<>>
    /\ dpt = EmptyDict
    /\ dpl = EmptyDict
    /\ marges = EmptyDict
    /\ critical_path = <<>>
    /\ project_duration = 0
    /\ changed = FALSE
    /\ iterations = 0
    /\ dequeued = <<>>
    /\ call_no = 1
    /\ returned = NoResult
    /\ other = NoInstance

\* Task lists that validate_tasks has not seen. Up to two tasks: any names,
\* any numeric durations, any predecessor lists, declared or not.
ShortLists ==
    UNION {{[i \in 1..n |-> [name |-> nm[i], duration |-> du[i],
                             predecessors |-> pr[i]]] :
               nm \in NameChoices(n), du \in [1..n -> CalcDurations],
               pr \in PredChoices(n)} : n \in 0..2}

\* Three tasks of distinct names with at most one predecessor each: chains,
\* self-loops and the cycles of two and three tasks.
RingLists ==
    {[i \in 1..MaxTasks |-> [name |-> NameSeq[i], duration |-> du[i],
                             predecessors |-> pr[i]]] :
        du \in [1..MaxTasks -> {1, MaxDur}],
        pr \in [1..MaxTasks -> {p \in PredLists : Len(p) <= 1}]}

\* MPMCalculator(tasks) on such a list.
new_calculator ==
    /\ pc = "new"
    /\ tasks' \in ShortLists \cup RingLists
    /\ dpt' = EmptyDict
    /\ dpl' = EmptyDict
    /\ marges' = EmptyDict
    /\ critical_path' = <<>>
    /\ project_duration' = 0
    /\ pc' = "calculate_all"
    /\ UNCHANGED <<validation_error, successors, in_degree, queue, changed,
                   iterations, dequeued, call_no, returned, other>>

\* The steps of calculate_all.
calculate_all ==
    \/ calculate_dpt_init
    \/ calculate_dpt_step
    \/ calculate_dpt_finish
    \/ calculate_dpl_init
    \/ calculate_dpl_pass
    \/ calculate_dpl_exit
    \/ calculate_marges
    \/ find_critical_path

NextCalculator == new_calculator \/ calculate_all

\* calculate_all is one sequential call: once called, it goes on while a step
\* is left.
SpecCalculator == InitCalculator /\ [][NextCalculator]_vars /\ WF_vars(calculate_all)

\* ---------------------------------------------------------------- properties
UniqueNames(ts) == \A i, j \in 1..Len(ts) : i # j => ts[i].name # ts[j].name

\* The precedence relation of a task list: pairs <<predecessor, task>>.
PredRel(ts) ==
    UNION {{<<ts[i].predecessors[j], ts[i].name>> : j \in 1..Len(ts[i].predecessors)} :
              i \in 1..Len(ts)}

RECURSIVE ReachSet(_, _)
ReachSet(E, S) ==
    LET S2 == S \cup {e[2] : e \in {x \in E : x[1] \in S}}
    IN  IF S2 = S THEN S ELSE ReachSet(E, S2)

CyclicRel(E) == \E e \in E : e[1] \in ReachSet(E, {e[2]})

NamesAndDurationsValid(ts) ==
    \A i \in 1..Len(ts) : ts[i].name # "" /\ ts[i].name # Blank /\ ts[i].duration > 0

\* A validated task set, as the specification defines it.
WellFormed(ts) ==
    /\ Len(ts) > 0
    /\ UniqueNames(ts)
    /\ NamesAndDurationsValid(ts)
    /\ \A i \in 1..Len(ts) : Range(ts[i].predecessors) \subseteq NameSet(ts)
    /\ ~CyclicRel(PredRel(ts))

DurOf(ts, n) == ts[CHOOSE i \in 1..Len(ts) : ts[i].name = n].duration

SuccSet(ts, n) == {ts[i].name : i \in {k \in 1..Len(ts) : n \in Range(ts[k].predecessors)}}

MaxOfSet(S) == CHOOSE m \in S : \A x \in S : x <= m
MinOfSet(S) == CHOOSE m \in S : \A x \in S : m <= x

\* C1: after calculate_all on a validated task set, a task without
\* predecessors has earliest start 0 and every other task starts at the
\* largest finish (EST + duration) of its direct predecessors, whatever the
\* input order.
C1_EstIsMaxOverPredecessors ==
    (pc = "done" /\ WellFormed(tasks)) =>
        \A i \in 1..Len(tasks) :
            dpt[tasks[i].name] =
                IF tasks[i].predecessors = <<>> THEN 0
                ELSE MaxOfSet({dpt[q] + DurOf(tasks, q) :
                                  q \in Range(tasks[i].predecessors)})

\* A task with two predecessors of different finish, listed before both.
C1_Witness ==
    /\ pc = "done" /\ WellFormed(tasks)
    /\ \E i, j, k \in 1..Len(tasks) :
          /\ i < j /\ i < k /\ j # k
          /\ Range(tasks[i].predecessors) = {tasks[j].name, tasks[k].name}
          /\ dpt[tasks[j].name] + tasks[j].duration
                 # dpt[tasks[k].name] + tasks[k].duration
          /\ dpt[tasks[i].name] > 0

\* C2: after calculate_all on a validated task set, every task without
\* successors has LST = project duration - its duration.
C2_TerminalLst ==
    (pc = "done" /\ WellFormed(tasks)) =>
        \A i \in 1..Len(tasks) :
            SuccSet(tasks, tasks[i].name) = {} =>
                dpl[tasks[i].name] = project_duration - tasks[i].duration

\* C3: after calculate_all on a validated task set, the LST values are those
\* of a reverse topological pass: min of the successors' LST minus the own
\* duration, project duration minus duration for a terminal task.
C3_LstIsReversePass ==
    (pc = "done" /\ WellFormed(tasks)) =>
        \A i \in 1..Len(tasks) :
            dpl[tasks[i].name] =
                IF SuccSet(tasks, tasks[i].name) = {}
                THEN project_duration - tasks[i].duration
                ELSE MinOfSet({dpl[q] : q \in SuccSet(tasks, tasks[i].name)})
                         - tasks[i].duration

\* C4: on a validated task set the LST loop is left with changed = FALSE, after
\* at most 2 * n passes: it never stops on the cap while a value still changes.
C4_LoopLeavesOnFixedPoint ==
    (pc \in {"calculate_marges", "find_critical_path", "done"} /\ WellFormed(tasks)) =>
        /\ ~changed
        /\ iterations <= 2 * Len(tasks)
        /\ dpl_pass([dpl |-> dpl, changed |-> FALSE], tasks, successors,
                    project_duration, 1).changed = FALSE

\* A chain listed from its start, which takes n + 1 passes.
C4_Witness ==
    /\ pc = "done" /\ WellFormed(tasks)
    /\ Len(tasks) = MaxTasks
    /\ iterations = Len(tasks) + 1
    /\ ~changed

\* C5: the critical path of a validated task set is not empty.
C5_CriticalPathNonEmpty ==
    (pc = "done" /\ WellFormed(tasks)) => critical_path # <<>>

FirstIndex(ts, n) == CHOOSE i \in 1..Len(ts) :
                         ts[i].name = n /\ \A j \in 1..(i - 1) : ts[j].name # n

\* C7: the critical path holds exactly the tasks whose slack is within 0.001
\* of zero, each once, by ascending EST, equal EST in input order.
C7_CriticalPathContent ==
    pc = "done" =>
        /\ Range(critical_path) = {n \in NameSet(tasks) : Abs(marges[n]) < Tol}
        /\ \A a, b \in 1..Len(critical_path) :
              a < b =>
                 /\ critical_path[a] # critical_path[b]
                 /\ dpt[critical_path[a]] <= dpt[critical_path[b]]
                 /\ dpt[critical_path[a]] = dpt[critical_path[b]] =>
                       FirstIndex(tasks, critical_path[a])
                           < FirstIndex(tasks, critical_path[b])

\* Two critical tasks of equal EST, and a critical task listed before one
\* that starts earlier.
C7_Witness ==
    /\ pc = "done" /\ WellFormed(tasks)
    /\ \E a, b \in 1..Len(critical_path) :
          a < b /\ dpt[critical_path[a]] = dpt[critical_path[b]]
    /\ \E a, b \in 1..Len(critical_path) :
          /\ a < b
          /\ FirstIndex(tasks, critical_path[a]) > FirstIndex(tasks, critical_path[b])

\* C8: validate_tasks answers CyclicDependency for every task set with valid
\* names and durations whose predecessor relation has a cycle.
C8_CycleRejected ==
    (pc # "request" /\ Len(tasks) > 0 /\ NamesAndDurationsValid(tasks)
        /\ CyclicRel(PredRel(tasks)))
    => validation_error.kind = "CyclicDependency"

\* C9: every accepted task set gives the calculator an acyclic successor
\* graph whose edge endpoints are declared tasks; every task reaches
\* in-degree 0.
C9_AcceptedGraphAcyclic ==
    /\ (pc # "request" /\ validation_error = NoError /\ Len(tasks) > 0) =>
          /\ ~CyclicRel(PredRel(tasks))
          /\ \A e \in PredRel(tasks) : e[1] \in NameSet(tasks) /\ e[2] \in NameSet(tasks)
    /\ pc = "calculate_dpl" => \A n \in DOMAIN in_degree : in_degree[n] = 0

\* C10: validate_tasks rejects every task set in which two tasks have the
\* same name.
C10_DuplicateNameRejected ==
    (pc # "request" /\ ~UniqueNames(tasks)) => validation_error # NoError

\* ---------------------------------------------------------------- validation order
\* The first task, in input order, with a blank name or an invalid duration.
BadTask(ts, i) ==
    ts[i].name = "" \/ ts[i].name = Blank \/ ts[i].duration = NonNumeric
        \/ ts[i].duration <= 0

\* The pairs <<i, j>> of an undeclared predecessor: j-th predecessor of task i.
UnknownPairs(ts) ==
    {q \in (1..Len(ts)) \X (1..MaxPreds + 1) :
        /\ q[2] <= Len(ts[q[1]].predecessors)
        /\ ts[q[1]].predecessors[q[2]] \notin NameSet(ts)}

FirstPair(P) == CHOOSE q \in P :
                    \A r \in P : q[1] < r[1] \/ (q[1] = r[1] /\ q[2] <= r[2])

\* The error the rules of the specification give, in their fixed order.
ExpectedError(ts) ==
    IF Len(ts) = 0 THEN Err("EmptyInput", 0, "", "")
    ELSE IF \E i \in 1..Len(ts) : BadTask(ts, i)
    THEN LET i == CHOOSE k \in 1..Len(ts) :
                      BadTask(ts, k) /\ \A m \in 1..(k - 1) : ~BadTask(ts, m)
         IN  IF ts[i].name = "" \/ ts[i].name = Blank
             THEN Err("MissingName", i, "", "")
             ELSE Err("InvalidDuration", 0, ts[i].name, "")
    ELSE IF CyclicRel(PredRel(ts)) THEN Err("CyclicDependency", 0, "", "")
    ELSE IF UnknownPairs(ts) # {}
    THEN LET q == FirstPair(UnknownPairs(ts))
         IN  Err("UnknownPredecessor", 0, ts[q[1]].name, ts[q[1]].predecessors[q[2]])
    ELSE NoError

\* C11: validate_tasks reports the first violated rule in the order: empty
\* input; per task in input order, missing name then invalid duration; cycle;
\* unknown predecessor. A set with a cycle and an undeclared predecessor is
\* reported as cyclic.
C11_FirstViolatedRule ==
    pc # "request" => validation_error = ExpectedError(tasks)

\* C12: validate_tasks succeeds exactly when the set is non-empty, every name
\* is non-blank, every duration is numeric and > 0, the predecessor relation
\* is acyclic and every predecessor is declared.
C12_SuccessIffValid ==
    pc # "request" =>
        (validation_error = NoError <=>
            /\ Len(tasks) > 0
            /\ NamesAndDurationsValid(tasks)
            /\ ~CyclicRel(PredRel(tasks))
            /\ UnknownPairs(tasks) = {})

\* C13: an acyclic set with valid names and durations that lists an undeclared
\* predecessor fails with the unknown-predecessor error naming the first such
\* (task, predecessor) pair, in input order of tasks and then of the list.
C13_FirstUnknownPredecessor ==
    (/\ pc # "request" /\ Len(tasks) > 0
     /\ NamesAndDurationsValid(tasks)
     /\ ~CyclicRel(PredRel(tasks))
     /\ UnknownPairs(tasks) # {})
    => LET q == FirstPair(UnknownPairs(tasks))
       IN  validation_error =
               Err("UnknownPredecessor", 0, tasks[q[1]].name,
                   tasks[q[1]].predecessors[q[2]])

\* Several undeclared predecessors, in one list or in the lists of two tasks.
C13_Witness ==
    /\ pc = "error"
    /\ validation_error.kind = "UnknownPredecessor"
    /\ NamesAndDurationsValid(tasks) /\ UniqueNames(tasks)
    /\ ~CyclicRel(PredRel(tasks))
    /\ Cardinality(UnknownPairs(tasks)) >= 2
    /\ \E q \in UnknownPairs(tasks) :
          tasks[q[1]].predecessors[q[2]] # validation_error.pred

\* C14: when validation fails the request ends with that error, and no step
\* of calculate_all runs: the schedule fields stay empty.
C14_NoScheduleOnError ==
    /\ (pc = "error") <=> (validation_error # NoError)
    /\ (pc # "request" /\ ExpectedError(tasks).kind
            \in {"EmptyInput", "MissingName", "InvalidDuration"})
          => pc = "error"
    /\ pc = "error" =>
          /\ dpt = EmptyDict /\ dpl = EmptyDict /\ marges = EmptyDict
          /\ critical_path = <<>> /\ project_duration = 0
          /\ dequeued = <<>> /\ iterations = 0
          /\ ~ENABLED Next

\* A request rejected for an invalid duration.
C14_Witness ==
    /\ pc = "error"
    /\ validation_error.kind = "InvalidDuration"
    /\ Len(tasks) = MaxTasks

\* ---------------------------------------------------------------- schedule
\* C15: on every accepted task set calculate_all runs to its return without
\* an error, and the EST, LST and slack maps have an entry for every task,
\* with slack = LST - EST.
C15_CompleteSchedule ==
    /\ pc \in {"dpt_loop", "dpl_loop"} =>
          \* no dict lookup of the loops misses its key
          /\ DOMAIN successors = NameSet(tasks)
          /\ DOMAIN dpt = NameSet(tasks)
          /\ Range(queue) \subseteq NameSet(tasks)
          /\ \A n \in NameSet(tasks) : Range(successors[n]) \subseteq NameSet(tasks)
    /\ pc = "dpt_loop" => DOMAIN in_degree = NameSet(tasks)
    /\ pc = "dpl_loop" => DOMAIN dpl = NameSet(tasks)
    /\ pc = "done" =>
          /\ DOMAIN dpt = NameSet(tasks)
          /\ DOMAIN dpl = NameSet(tasks)
          /\ DOMAIN marges = NameSet(tasks)
          /\ \A n \in NameSet(tasks) : marges[n] = dpl[n] - dpt[n]

\* A returned schedule of three tasks, one of them with slack.
C15_Witness ==
    /\ pc = "done" /\ WellFormed(tasks)
    /\ Len(tasks) = MaxTasks
    /\ \E n \in NameSet(tasks) : marges[n] > 0
    /\ \E n \in NameSet(tasks) : dpt[n] > 0

\* The LST values are those of an exact reverse pass.
LstIsExact ==
    \A i \in 1..Len(tasks) :
        dpl[tasks[i].name] =
            IF SuccSet(tasks, tasks[i].name) = {}
            THEN project_duration - tasks[i].duration
            ELSE MinOfSet({dpl[q] : q \in SuccSet(tasks, tasks[i].name)})
                     - tasks[i].duration

\* C16 (as claimed): a slack within 0.001 of zero is reported as exactly 0;
\* stated for the validated task sets whose LST values are exact.
C16_SlackClamped ==
    (pc = "done" /\ WellFormed(tasks) /\ LstIsExact) =>
        \A n \in NameSet(tasks) :
            Abs(dpl[n] - dpt[n]) < Tol => marges[n] = 0

\* C16 (amended): the reported slack is LST - EST also when it lies within
\* 0.001 of zero; the tolerance only decides that such a task is listed in the
\* critical path.
C16_ToleranceSelectsCritical ==
    pc = "done" =>
        \A n \in NameSet(tasks) :
            Abs(dpl[n] - dpt[n]) < Tol =>
                /\ marges[n] = dpl[n] - dpt[n]
                /\ n \in Range(critical_path)

\* A task reported with a slack of 0.0005, listed as critical.
C16_Witness ==
    /\ pc = "done" /\ WellFormed(tasks)
    /\ \E n \in NameSet(tasks) :
          /\ marges[n] # 0 /\ Abs(marges[n]) < Tol
          /\ n \in Range(critical_path)

\* C17: on a validated task set the project duration is the largest
\* EST + duration over all tasks.
C17_ProjectDurationIsMaxFinish ==
    (pc \in {"calculate_dpl", "dpl_loop", "calculate_marges", "find_critical_path",
             "done"} /\ WellFormed(tasks)) =>
        project_duration =
            MaxOfSet({dpt[tasks[i].name] + tasks[i].duration : i \in 1..Len(tasks)})

\* The last-finishing task is neither the last listed nor the last to start.
C17_Witness ==
    /\ pc = "done" /\ WellFormed(tasks)
    /\ Len(tasks) = MaxTasks
    /\ \E i \in 1..(Len(tasks) - 1) :
          /\ dpt[tasks[i].name] + tasks[i].duration = project_duration
          /\ \A j \in 1..Len(tasks) :
                j # i => dpt[tasks[j].name] + tasks[j].duration < project_duration
          /\ \E j \in 1..Len(tasks) : dpt[tasks[j].name] > dpt[tasks[i].name]

\* C18: a second calculate_all on the same instance and input returns the
\* same EST, LST, slack, project duration and critical path as the first: it
\* does not depend on the fields the first call left.
C18_SecondCallSameResult ==
    (pc = "done" /\ call_no >= 2) =>
        Result(dpt, dpl, marges, critical_path, project_duration) = returned

\* A second call finished on three tasks, with a critical path and a task
\* with slack.
C18_Witness ==
    /\ pc = "done" /\ call_no = 2 /\ WellFormed(tasks)
    /\ Len(tasks) = MaxTasks
    /\ Len(critical_path) >= 2
    /\ \E n \in NameSet(tasks) : marges[n] > Tol
    /\ returned # NoResult

\* ---------------------------------------------------------------- EST propagation
PredsOf(ts, n) == UNION {Range(ts[i].predecessors) : i \in {k \in 1..Len(ts) : ts[k].name = n}}

InEstPropagation == pc \in {"dpt_loop", "calculate_dpl"}

\* No task is dequeued twice, and each one after all its predecessors.
DequeueOrder ==
    \A k \in 1..Len(dequeued) :
        /\ \A m \in 1..Len(dequeued) : m # k => dequeued[m] # dequeued[k]
        /\ PredsOf(tasks, dequeued[k]) \subseteq {dequeued[m] : m \in 1..(k - 1)}

\* C20: during the EST propagation on a validated task set every task is
\* dequeued exactly once and after all its predecessors, the EST of a dequeued
\* task never changes again, and the queue is empty only when all n tasks
\* were processed.
C20_DequeueOnceInOrder ==
    /\ []((InEstPropagation /\ WellFormed(tasks)) =>
            /\ DequeueOrder
            /\ queue = <<>> => Range(dequeued) = NameSet(tasks)
            /\ pc = "calculate_dpl" => Len(dequeued) = Len(tasks))
    /\ [][(pc = "dpt_loop" /\ WellFormed(tasks)) =>
            \A n \in Range(dequeued) : dpt'[n] = dpt[n]]_vars

\* The propagation ended on three tasks, the first listed having the two
\* others as predecessors.
C20_Witness ==
    /\ pc = "calculate_dpl" /\ WellFormed(tasks)
    /\ Len(dequeued) = MaxTasks
    /\ Len(tasks[1].predecessors) = 2
    /\ dequeued[MaxTasks] = tasks[1].name

\* ---------------------------------------------------------------- independence
\* calculate_all run to its end on one instance, nothing else running.
RECURSIVE RunAlone(_)
RunAlone(s) == IF s.pc = "done" THEN s ELSE RunAlone(inst_step(s))

ResultOf(s) == Result(s.dpt, s.dpl, s.marges, s.critical_path, s.project_duration)

\* C19: two computations on two instances share no state: under every
\* interleaving of their steps each returns the schedule it returns alone.
C19_InstancesIndependent ==
    /\ (pc = "done" /\ other.pc # "none") =>
          Result(dpt, dpl, marges, critical_path, project_duration)
              = ResultOf(RunAlone(NewInstance(tasks)))
    /\ other.pc = "done" =>
          ResultOf(other) = ResultOf(RunAlone(NewInstance(other.tasks)))

\* The first computation has returned while the second, on another task set
\* of another project duration, is in the middle of its LST passes.
C19_Witness ==
    /\ pc = "done" /\ other.pc = "dpl_loop" /\ other.iterations > 0
    /\ WellFormed(tasks) /\ WellFormed(other.tasks)
    /\ Len(tasks) = 2 /\ Len(other.tasks) = 2
    /\ project_duration # other.project_duration
    /\ dpt # other.dpt

OnCycle(ts, n) ==
    \E e \in PredRel(ts) : e[1] = n /\ n \in ReachSet(PredRel(ts), {e[2]})

\* What _calculate_dpt leaves in dpt for a task it has not dequeued: 0, or the
\* largest finish of its dequeued predecessors when that is above 0.
UndequeuedEst(n) ==
    MaxOfSet({0} \cup {dpt[q] + task_dict_duration(tasks, q) :
                          q \in PredsOf(tasks, n) \cap Range(dequeued)})

\* C22 (as claimed): calculate_all terminates on every task list with numeric
\* durations, no task on a cycle is ever dequeued and the EST of each stays 0,
\* and the LST loop makes at most 2 * n passes.
C22_CycleEstStaysZero ==
    /\ (pc = "calculate_all") ~> (pc = "done")
    /\ [](pc \notin {"new", "calculate_all"} =>
            /\ \A n \in NameSet(tasks) :
                  OnCycle(tasks, n) => n \notin Range(dequeued) /\ dpt[n] = 0
            /\ iterations <= 2 * Len(tasks))

\* C22 (amended): calculate_all terminates on every task list with numeric
\* durations, cyclic ones included: no task is dequeued twice and no task on
\* a cycle is ever dequeued, the EST of a task that is not dequeued is 0
\* unless a dequeued predecessor raised it to its finish, and the LST loop
\* makes at most 2 * n passes, also when the last pass still changed a value.
C22_TerminatesOnAnyTaskList ==
    /\ (pc = "calculate_all") ~> (pc = "done")
    /\ [](pc \notin {"new", "calculate_all"} =>
            /\ \A k, m \in 1..Len(dequeued) : k # m => dequeued[k] # dequeued[m]
            /\ \A n \in NameSet(tasks) :
                  /\ OnCycle(tasks, n) => n \notin Range(dequeued)
                  /\ n \notin Range(dequeued) => dpt[n] = UndequeuedEst(n)
            /\ iterations <= 2 * Len(tasks))

\* A cyclic list has returned: a task on the cycle got its EST from a dequeued
\* predecessor, and the LST loop stopped on its cap of 2 * n passes while the
\* last pass still changed a value.
C22_Witness ==
    /\ pc = "done"
    /\ Len(tasks) >= 2
    /\ iterations = 2 * Len(tasks) /\ changed
    /\ \E n \in NameSet(tasks) :
          OnCycle(tasks, n) /\ n \notin Range(dequeued) /\ dpt[n] > 0
====
